---- MODULE Spec2Model ----
(***************************************************************************)
(* Inventory / Player value types of the move-semantics project.           *)
(*                                                                         *)
(* The program state is the set of Inventory and Player objects a caller   *)
(* holds, plus the free store on which the equipped Items live.  Every     *)
(* member function of Inventory.cpp and Player.cpp that changes state is   *)
(* one action; the const member functions are operators.                   *)
(*                                                                         *)
(* Weights are floats in the source; here they are non-negative integers   *)
(* (tenths of a unit: 10.5 is 105).                                        *)
(*                                                                         *)
(* Undefined behaviour is a choice between the outcomes a build produces:  *)
(* deleting an Item a second time either aborts the process or goes        *)
(* unnoticed; reading a deleted Item either aborts or yields any value.    *)
(* Pointers are allocation identities: an address is never handed out      *)
(* twice.                                                                  *)
(***************************************************************************)
EXTENDS Integers, Sequences, FiniteSets, TLC

VARIABLES
    inv,          \* object name -> Inventory (for a Player: its inventory_ member)
    name,         \* Player name -> name_
    heap,         \* Item* -> the Item allocated there and its lifetime
    disciplined,  \* history: the caller has only ever passed nullptr or a
                  \* fresh `new Item` to a constructor or to equip
    pc            \* "running", or "aborted" once undefined behaviour killed the process

vars == <<inv, name, heap, disciplined, pc>>

----------------------------------------------------------------------------
(* Bounds of the model *)

\* Number of Items the free store can hand out over a run.
MaxItems == 3
\* Cap on item_count_: store is not taken once the count has reached it.
MaxCount == 2
\* Cap on the number of times one Item is deleted (second and later deletes
\* are undefined behaviour that went unnoticed).
MaxFrees == 2

----------------------------------------------------------------------------
(* Item *)

NONE == "NONE"
WEAPON == "WEAPON"
ARMOR == "ARMOR"
ACCESSORY == "ACCESSORY"

Item(n, w, t) == [name_ |-> n, weight_ |-> w, type_ |-> t]

\* A default-constructed Item: what an unspecified grid cell holds.
EmptyItem == Item("", 0, NONE)
\* A NONE-category Item that nevertheless carries a weight.
Ghost == Item("Ghost", 1, NONE)
Sword == Item("Excalibur", 105, WEAPON)
Shield == Item("Shield", 50, ARMOR)
Helmet == Item("Helmet", 32, ARMOR)
Potion == Item("Health Potion", 5, ACCESSORY)

\* Items a caller equips, and what a read of a deleted Item may yield.
EquipVals == {Shield, Helmet}
\* Items a caller stores.
StoreItems == {Potion, Ghost}

----------------------------------------------------------------------------
(* The free store *)

nullptr == 0
Ptr == 1..MaxItems

Unallocated == [st |-> "unallocated", val |-> EmptyItem, frees |-> 0]

Allocated(h) == {p \in Ptr : h[p].st # "unallocated"}
HasFree(h) == Allocated(h) # Ptr
\* The next allocation (addresses are handed out in order, never twice).
NextFree(h) == CHOOSE p \in Ptr : h[p].st = "unallocated" /\ \A q \in Ptr : q < p => h[q].st # "unallocated"

\* new Item(v)
New(h, v) == [h EXCEPT ![NextFree(h)] = [st |-> "live", val |-> v, frees |-> 0]]

\* delete p: the possible outcomes, as [abort, heap].  A deleted Item's storage no
\* longer holds a value.
DeleteOutcomes(h, p) ==
    IF p = nullptr THEN {[abort |-> FALSE, heap |-> h]}
    ELSE IF h[p].st = "live"
         THEN {[abort |-> FALSE, heap |-> [h EXCEPT ![p] = [st |-> "freed", val |-> EmptyItem, frees |-> 1]]]}
         ELSE {[abort |-> TRUE, heap |-> h]}
              \cup (IF h[p].frees < MaxFrees
                    THEN {[abort |-> FALSE, heap |-> [h EXCEPT ![p].frees = @ + 1]]}
                    ELSE {})

\* *p: the possible outcomes, as [abort, val].
ReadOutcomes(h, p) ==
    IF h[p].st = "live" THEN {[abort |-> FALSE, val |-> h[p].val]}
    ELSE {[abort |-> TRUE, val |-> EmptyItem]}
         \cup {[abort |-> FALSE, val |-> v] : v \in EquipVals}

----------------------------------------------------------------------------
(* Inventory: pure parts *)

InvIds == {"inv1", "inv2"}
PlayerIds == {"p1", "p2"}
Objs == InvIds \cup PlayerIds

\* An object that is not (or no longer) constructed.
Dead == [live |-> FALSE, inventory_grid_ |-> <<>>, equipped_ |-> nullptr,
         weight_ |-> 0, item_count_ |-> 0]

\* The constructor's inner loop: what the items of `row` add to
\* [weight_, item_count_].
RECURSIVE ScanRow(_)
ScanRow(row) ==
    IF row = <<>> THEN [weight_ |-> 0, item_count_ |-> 0]
    ELSE LET rest == ScanRow(Tail(row))
         IN  IF Head(row).type_ # NONE
             THEN [weight_ |-> Head(row).weight_ + rest.weight_,
                   item_count_ |-> 1 + rest.item_count_]
             ELSE rest

\* The constructor's outer loop: what the rows add.
RECURSIVE ScanGrid(_)
ScanGrid(rows) ==
    IF rows = <<>> THEN [weight_ |-> 0, item_count_ |-> 0]
    ELSE LET first == ScanRow(Head(rows))
             rest == ScanGrid(Tail(rows))
         IN  [weight_ |-> first.weight_ + rest.weight_,
              item_count_ |-> first.item_count_ + rest.item_count_]

\* Inventory::Inventory(items, equipped)
InventoryCtor(items, equipped) ==
    LET agg == ScanGrid(items)
    IN  [live |-> TRUE, inventory_grid_ |-> items, equipped_ |-> equipped,
         weight_ |-> agg.weight_, item_count_ |-> agg.item_count_]

getEquipped(this) == this.equipped_
getItems(this) == this.inventory_grid_
getWeight(this) == this.weight_
getCount(this) == this.item_count_

\* Fault: the bounds test of a grid taken to be rectangular (every row as
\* long as the first).
OutOfRangeRect(this, row, col) ==
    \/ row >= Len(this.inventory_grid_)
    \/ col >= Len(this.inventory_grid_[1])

\* The bounds test shared by at and store (0-based row and col).
OutOfRange(this, row, col) ==
    \/ row >= Len(this.inventory_grid_)
    \/ col >= Len(this.inventory_grid_[row + 1])

\* Inventory::at: [threw, ret]
at(this, row, col) ==
    IF OutOfRange(this, row, col)
    THEN [threw |-> TRUE, ret |-> EmptyItem]
    ELSE [threw |-> FALSE, ret |-> this.inventory_grid_[row + 1][col + 1]]

\* Fault: store without the test for an occupied cell.
storeOverwrites(this, row, col, pickup) ==
    IF OutOfRange(this, row, col)
    THEN [threw |-> TRUE, ret |-> FALSE, this |-> this]
    ELSE [threw |-> FALSE, ret |-> TRUE,
          this |-> [this EXCEPT !.inventory_grid_[row + 1][col + 1] = pickup,
                                !.weight_ = @ + pickup.weight_,
                                !.item_count_ = @ + 1]]

\* Inventory::store: [threw, ret, this]
store(this, row, col, pickup) ==
    IF OutOfRange(this, row, col)
    THEN [threw |-> TRUE, ret |-> FALSE, this |-> this]
    ELSE IF this.inventory_grid_[row + 1][col + 1].type_ # NONE
    THEN [threw |-> FALSE, ret |-> FALSE, this |-> this]
    ELSE [threw |-> FALSE, ret |-> TRUE,
          this |-> [this EXCEPT !.inventory_grid_[row + 1][col + 1] = pickup,
                                !.weight_ = @ + pickup.weight_,
                                !.item_count_ = @ + 1]]

\* Fault: a move that forgets rhs.equipped_ = nullptr.
MovedFromKeepsEquipped(rhs) ==
    [rhs EXCEPT !.inventory_grid_ = <<>>, !.weight_ = 0, !.item_count_ = 0]

\* The state a move leaves its source in.
MovedFrom(rhs) ==
    [rhs EXCEPT !.inventory_grid_ = <<>>, !.equipped_ = nullptr,
                !.weight_ = 0, !.item_count_ = 0]

\* What a move gives its destination.
MovedTo(rhs) ==
    [live |-> TRUE, inventory_grid_ |-> rhs.inventory_grid_, equipped_ |-> rhs.equipped_,
     weight_ |-> rhs.weight_, item_count_ |-> rhs.item_count_]

\* What a copy gives its destination, `e` being its new equipped_.
CopiedTo(rhs, e) ==
    [live |-> TRUE, inventory_grid_ |-> rhs.inventory_grid_, equipped_ |-> e,
     weight_ |-> rhs.weight_, item_count_ |-> rhs.item_count_]

----------------------------------------------------------------------------
(* The caller: the arguments it passes *)

\* The default grid: 10x10 default-constructed Items.
DefaultSize == 10
RECURSIVE Repeat(_, _)
Repeat(x, n) == IF n = 0 THEN <<>> ELSE <<x>> \o Repeat(x, n - 1)
DefaultGrid == Repeat(Repeat(EmptyItem, DefaultSize), DefaultSize)

EmptyGrid == <<>>
\* The 2x2 grid of swords of the test driver.
SwordGrid == <<<<Sword, Sword>>, <<Sword, Sword>>>>
\* A jagged grid with empty cells, one of them a NONE item with a weight.
JaggedGrid == <<<<Ghost>>, <<EmptyItem, Sword>>>>

\* (row, col) arguments of store.
StoreCells == {<<0, 0>>, <<0, 1>>, <<10, 10>>}
\* row and col arguments of at.
Coords == {0, 1, 2, 9, 10}

\* An Item* argument, as [ptr, heap, fresh]: nullptr or a fresh `new Item`.
OwnedPointers(h, vals) ==
    {[ptr |-> nullptr, heap |-> h, fresh |-> TRUE]}
    \cup (IF HasFree(h)
          THEN {[ptr |-> NextFree(h), heap |-> New(h, v), fresh |-> TRUE] : v \in vals}
          ELSE {})

\* An Item* argument of a caller that also passes pointers it kept or got
\* from getEquipped.
AnyPointers(h, vals) ==
    OwnedPointers(h, vals) \cup {[ptr |-> p, heap |-> h, fresh |-> FALSE] : p \in Allocated(h)}

PlayerNames == {"Knight", "Mage"}

----------------------------------------------------------------------------
(* Inventory: the member functions' effect on inv, heap and pc *)

Running == pc = "running"
Live(o) == inv[o].live

\* Undefined behaviour killed the process.
Aborts == pc' = "aborted" /\ inv' = inv /\ heap' = heap

\* Fault: discardEquipped that deletes and forgets equipped_ = nullptr.
InvDiscardEquippedDangling(o) ==
    IF inv[o].equipped_ # nullptr
    THEN \E del \in DeleteOutcomes(heap, inv[o].equipped_) :
           IF del.abort THEN Aborts
           ELSE heap' = del.heap /\ inv' = inv /\ pc' = pc
    ELSE inv' = inv /\ heap' = heap /\ pc' = pc

\* Inventory::discardEquipped on o
InvDiscardEquipped(o) ==
    IF inv[o].equipped_ # nullptr
    THEN \E del \in DeleteOutcomes(heap, inv[o].equipped_) :
           IF del.abort THEN Aborts
           ELSE /\ heap' = del.heap
                /\ inv' = [inv EXCEPT ![o].equipped_ = nullptr]
                /\ pc' = pc
    ELSE inv' = inv /\ heap' = heap /\ pc' = pc

\* Inventory::Inventory(const Inventory&): d constructed from s
InvCopyCtor(d, s) ==
    IF inv[s].equipped_ = nullptr
    THEN /\ inv' = [inv EXCEPT ![d] = CopiedTo(inv[s], nullptr)]
         /\ heap' = heap /\ pc' = pc
    ELSE /\ HasFree(heap)
         /\ \E r \in ReadOutcomes(heap, inv[s].equipped_) :
              IF r.abort THEN Aborts
              ELSE /\ inv' = [inv EXCEPT ![d] = CopiedTo(inv[s], NextFree(heap))]
                   /\ heap' = New(heap, r.val)
                   /\ pc' = pc

\* Inventory::Inventory(Inventory&&): d constructed from s
InvMoveCtor(d, s) ==
    /\ inv' = [inv EXCEPT ![d] = MovedTo(inv[s]), ![s] = MovedFrom(inv[s])]
    /\ heap' = heap /\ pc' = pc

\* Fault: a copy assignment that copies the pointer instead of the Item.
InvCopyAssignShallow(d, s) ==
    IF d = s THEN inv' = inv /\ heap' = heap /\ pc' = pc
    ELSE \E del \in DeleteOutcomes(heap, inv[d].equipped_) :
           IF del.abort THEN Aborts
           ELSE /\ inv' = [inv EXCEPT ![d] = CopiedTo(inv[s], inv[s].equipped_)]
                /\ heap' = del.heap /\ pc' = pc

\* Inventory::operator=(const Inventory&): d = s
InvCopyAssign(d, s) ==
    IF d = s THEN inv' = inv /\ heap' = heap /\ pc' = pc
    ELSE \E del \in DeleteOutcomes(heap, inv[d].equipped_) :
           IF del.abort THEN Aborts
           ELSE IF inv[s].equipped_ = nullptr
           THEN /\ inv' = [inv EXCEPT ![d] = CopiedTo(inv[s], nullptr)]
                /\ heap' = del.heap /\ pc' = pc
           ELSE /\ HasFree(del.heap)
                /\ \E r \in ReadOutcomes(del.heap, inv[s].equipped_) :
                     IF r.abort THEN Aborts
                     ELSE /\ inv' = [inv EXCEPT ![d] = CopiedTo(inv[s], NextFree(del.heap))]
                          /\ heap' = New(del.heap, r.val)
                          /\ pc' = pc

\* Inventory::operator=(Inventory&&): d = std::move(s)
InvMoveAssign(d, s) ==
    IF d = s THEN inv' = inv /\ heap' = heap /\ pc' = pc
    ELSE \E del \in DeleteOutcomes(heap, inv[d].equipped_) :
           IF del.abort THEN Aborts
           ELSE /\ inv' = [inv EXCEPT ![d] = MovedTo(inv[s]), ![s] = MovedFrom(inv[s])]
                /\ heap' = del.heap /\ pc' = pc

\* Inventory::~Inventory on o
InvDtor(o) ==
    \E del \in DeleteOutcomes(heap, inv[o].equipped_) :
      IF del.abort THEN Aborts
      ELSE /\ inv' = [inv EXCEPT ![o] = Dead]
           /\ heap' = del.heap /\ pc' = pc

----------------------------------------------------------------------------
(* Inventory: actions.  o is an Inventory variable or, through             *)
(* getInventoryRef, a Player's inventory_.                                 *)

\* Inventory i(items, a.ptr);
Construct(i, items, a) ==
    /\ Running /\ ~Live(i)
    /\ inv' = [inv EXCEPT ![i] = InventoryCtor(items, a.ptr)]
    /\ heap' = a.heap
    /\ disciplined' = (disciplined /\ a.fresh)
    /\ UNCHANGED <<name, pc>>

\* Inventory i;
DefaultConstruct(i) ==
    /\ Running /\ ~Live(i)
    /\ inv' = [inv EXCEPT ![i] = InventoryCtor(DefaultGrid, nullptr)]
    /\ UNCHANGED <<name, heap, disciplined, pc>>

\* Fault: equip that deletes the Item it replaces.
EquipDeletesOld(o, a) ==
    /\ Running /\ Live(o)
    /\ \E del \in DeleteOutcomes(a.heap, inv[o].equipped_) :
         /\ ~del.abort
         /\ heap' = del.heap
    /\ inv' = [inv EXCEPT ![o].equipped_ = a.ptr]
    /\ disciplined' = (disciplined /\ a.fresh)
    /\ UNCHANGED <<name, pc>>

\* o.equip(a.ptr);
Equip(o, a) ==
    /\ Running /\ Live(o)
    /\ inv' = [inv EXCEPT ![o].equipped_ = a.ptr]
    /\ heap' = a.heap
    /\ disciplined' = (disciplined /\ a.fresh)
    /\ UNCHANGED <<name, pc>>

\* o.discardEquipped();
DiscardEquipped(o) ==
    /\ Running /\ Live(o)
    /\ InvDiscardEquipped(o)
    /\ UNCHANGED <<name, disciplined>>

\* o.store(row, col, pickup);   (an out_of_range is caught by the caller)
Store(o, row, col, pickup) ==
    /\ Running /\ Live(o)
    /\ store(inv[o], row, col, pickup).ret => inv[o].item_count_ < MaxCount
    /\ inv' = [inv EXCEPT ![o] = store(inv[o], row, col, pickup).this]
    /\ UNCHANGED <<name, heap, disciplined, pc>>

\* Inventory d(s);
CopyConstruct(d, s) ==
    /\ Running /\ ~Live(d) /\ Live(s)
    /\ InvCopyCtor(d, s)
    /\ UNCHANGED <<name, disciplined>>

\* Inventory d(std::move(s));
MoveConstruct(d, s) ==
    /\ Running /\ ~Live(d) /\ Live(s)
    /\ InvMoveCtor(d, s)
    /\ UNCHANGED <<name, disciplined>>

\* d = s;
CopyAssign(d, s) ==
    /\ Running /\ Live(d) /\ Live(s)
    /\ InvCopyAssign(d, s)
    /\ UNCHANGED <<name, disciplined>>

\* d = std::move(s);
MoveAssign(d, s) ==
    /\ Running /\ Live(d) /\ Live(s)
    /\ InvMoveAssign(d, s)
    /\ UNCHANGED <<name, disciplined>>

\* i goes out of scope
Destroy(i) ==
    /\ Running /\ Live(i)
    /\ InvDtor(i)
    /\ UNCHANGED <<name, disciplined>>

----------------------------------------------------------------------------
(* Player: actions *)

\* What the Player operation leaves in name: nothing changes if the
\* process died in the Inventory member's operation.
NameAfter(new) == name' = IF pc' = "aborted" THEN name ELSE new

getName(k) == name[k]

\* Player k(nm, s);
PlayerConstruct(k, nm, s) ==
    /\ Running /\ ~Live(k) /\ Live(s)
    /\ InvCopyCtor(k, s)
    /\ NameAfter([name EXCEPT ![k] = nm])
    /\ UNCHANGED disciplined

\* Player k(s);
PlayerCopyConstruct(k, s) ==
    /\ Running /\ ~Live(k) /\ Live(s)
    /\ InvCopyCtor(k, s)
    /\ NameAfter([name EXCEPT ![k] = name[s]])
    /\ UNCHANGED disciplined

\* Player k(std::move(s));
PlayerMoveConstruct(k, s) ==
    /\ Running /\ ~Live(k) /\ Live(s)
    /\ InvMoveCtor(k, s)
    /\ NameAfter([name EXCEPT ![k] = name[s], ![s] = ""])
    /\ UNCHANGED disciplined

\* k = s;
PlayerCopyAssign(k, s) ==
    /\ Running /\ Live(k) /\ Live(s)
    /\ IF k = s THEN UNCHANGED <<inv, heap, pc, name>>
       ELSE /\ InvCopyAssign(k, s)
            /\ NameAfter([name EXCEPT ![k] = name[s]])
    /\ UNCHANGED disciplined

\* k = std::move(s);
PlayerMoveAssign(k, s) ==
    /\ Running /\ Live(k) /\ Live(s)
    /\ IF k = s THEN UNCHANGED <<inv, heap, pc, name>>
       ELSE /\ InvMoveAssign(k, s)
            /\ NameAfter([name EXCEPT ![k] = name[s], ![s] = ""])
    /\ UNCHANGED disciplined

\* k goes out of scope: the implicit destructor destroys inventory_ and name_
PlayerDestroy(k) ==
    /\ Running /\ Live(k)
    /\ InvDtor(k)
    /\ NameAfter([name EXCEPT ![k] = ""])
    /\ UNCHANGED disciplined

----------------------------------------------------------------------------
(* Specifications *)

Init ==
    /\ inv = [o \in Objs |-> Dead]
    /\ name = [k \in PlayerIds |-> ""]
    /\ heap = [p \in Ptr |-> Unallocated]
    /\ disciplined = TRUE
    /\ pc = "running"

\* Two Inventories; the caller passes any pointer it can get hold of.
NextOwn ==
    \/ \E i \in InvIds, items \in {JaggedGrid}, a \in AnyPointers(heap, {Shield}) : Construct(i, items, a)
    \/ \E i \in InvIds, a \in AnyPointers(heap, {Shield}) : Equip(i, a)
    \/ \E i \in InvIds : DiscardEquipped(i)
    \/ \E i \in InvIds : Store(i, 0, 0, Potion)
    \/ \E d \in InvIds, s \in InvIds : CopyConstruct(d, s)
    \/ \E d \in InvIds, s \in InvIds : MoveConstruct(d, s)
    \/ \E d \in InvIds, s \in InvIds : CopyAssign(d, s)
    \/ \E d \in InvIds, s \in InvIds : MoveAssign(d, s)
    \/ \E i \in InvIds : Destroy(i)

Spec == Init /\ [][NextOwn]_vars

\* Two Inventories whose caller works on the grid; an equipped Item is one
\* the caller allocated for the constructor.
NextGrid ==
    \/ \E i \in InvIds, items \in {EmptyGrid, SwordGrid, JaggedGrid}, a \in OwnedPointers(heap, {Shield}) : Construct(i, items, a)
    \/ \E i \in InvIds : DefaultConstruct(i)
    \/ \E i \in InvIds, cell \in StoreCells, pickup \in StoreItems : Store(i, cell[1], cell[2], pickup)
    \/ \E d \in InvIds, s \in InvIds : CopyConstruct(d, s)
    \/ \E d \in InvIds, s \in InvIds : MoveConstruct(d, s)
    \/ \E d \in InvIds, s \in InvIds : CopyAssign(d, s)
    \/ \E d \in InvIds, s \in InvIds : MoveAssign(d, s)
    \/ \E i \in InvIds : Destroy(i)

SpecGrid == Init /\ [][NextGrid]_vars

\* One Inventory and two Players built from it.
NextPlayer ==
    \/ \E a \in OwnedPointers(heap, {Shield}) : Construct("inv1", JaggedGrid, a)
    \/ Destroy("inv1")
    \/ \E k \in PlayerIds, nm \in PlayerNames : PlayerConstruct(k, nm, "inv1")
    \/ \E k \in PlayerIds, a \in AnyPointers(heap, {Shield}) : Equip(k, a)
    \/ \E k \in PlayerIds : DiscardEquipped(k)
    \/ \E k \in PlayerIds, s \in PlayerIds : PlayerCopyConstruct(k, s)
    \/ \E k \in PlayerIds, s \in PlayerIds : PlayerMoveConstruct(k, s)
    \/ \E k \in PlayerIds, s \in PlayerIds : PlayerCopyAssign(k, s)
    \/ \E k \in PlayerIds, s \in PlayerIds : PlayerMoveAssign(k, s)
    \/ \E k \in PlayerIds : PlayerDestroy(k)

SpecPlayer == Init /\ [][NextPlayer]_vars

----------------------------------------------------------------------------
(* What the specification says of a grid, stated on the grid itself *)

\* The (row, col) positions (1-based) of the cells whose category is not NONE.
Occupied(grid) ==
    {rc \in UNION {{<<r, c>> : c \in 1..Len(grid[r])} : r \in 1..Len(grid)} :
        grid[rc[1]][rc[2]].type_ # NONE}

RECURSIVE WeightOver(_, _)
WeightOver(grid, cellset) ==
    IF cellset = {} THEN 0
    ELSE LET rc == CHOOSE x \in cellset : TRUE
         IN  grid[rc[1]][rc[2]].weight_ + WeightOver(grid, cellset \ {rc})

\* row, col (0-based) lie inside the grid.
InBounds(grid, row, col) == row < Len(grid) /\ col < Len(grid[row + 1])

\* The cells of heap that were allocated before the step keep their content.
HeapUntouched == \A q \in Allocated(heap) : heap'[q] = heap[q]
\* Every object but those of `objs` is as it was.
OthersUnchanged(objs) == \A x \in Objs \ objs : inv'[x] = inv[x]
\* The state the specification calls valid-empty.
ValidEmpty(rec) ==
    /\ rec.live /\ rec.inventory_grid_ = <<>> /\ rec.equipped_ = nullptr
    /\ rec.weight_ = 0 /\ rec.item_count_ = 0
\* No live object has p as its equipped item.
Unreferenced(p) == \A x \in Objs : Live(x) => inv[x].equipped_ # p

----------------------------------------------------------------------------
(* C1 *)

\* C1: in every reachable state the cached weight of every live Inventory is
\* the sum of the weights of its grid cells whose category is not NONE, and
\* the cached count is the number of such cells.
C1_AggregatesExact ==
    \A o \in Objs : Live(o) =>
        /\ getWeight(inv[o]) = WeightOver(getItems(inv[o]), Occupied(getItems(inv[o])))
        /\ getCount(inv[o]) = Cardinality(Occupied(getItems(inv[o])))

----------------------------------------------------------------------------
(* C2 *)

\* C2: no two distinct live Inventories have the same Item object as their
\* equipped item, whatever pointers the caller passed.
C2_ExclusiveOwnership ==
    \A x \in Objs, y \in Objs :
        (x # y /\ Live(x) /\ Live(y) /\ getEquipped(inv[x]) # nullptr)
            => getEquipped(inv[x]) # getEquipped(inv[y])

----------------------------------------------------------------------------
(* C3 *)

\* A call of a member function on o, or a construction from o.
OperationOn(o) ==
    \/ DiscardEquipped(o)
    \/ Destroy(o)
    \/ \E a \in AnyPointers(heap, EquipVals) : Equip(o, a)
    \/ \E cell \in StoreCells, pickup \in StoreItems : Store(o, cell[1], cell[2], pickup)
    \/ \E x \in InvIds \ {o} :
         CopyConstruct(x, o) \/ MoveConstruct(x, o) \/ CopyAssign(o, x) \/ MoveAssign(o, x)

\* C3: a move construction, or a move assignment to another object, that
\* completes gives the destination the source's grid, equipped pointer (the
\* same Item, nothing is allocated or released but the destination's old
\* Item), weight and count, and leaves the source valid-empty; and an
\* operation on an Inventory in that valid-empty state changes no Item on
\* the free store, so none that the destination now owns.
C3_MoveTransfers ==
    [][\A d \in InvIds, s \in InvIds :
        /\ (d # s /\ pc' = "running" /\ (MoveConstruct(d, s) \/ MoveAssign(d, s))) =>
             /\ inv'[d].live
             /\ getItems(inv'[d]) = getItems(inv[s])
             /\ getEquipped(inv'[d]) = getEquipped(inv[s])
             /\ getWeight(inv'[d]) = getWeight(inv[s])
             /\ getCount(inv'[d]) = getCount(inv[s])
             /\ ValidEmpty(inv'[s])
             /\ Allocated(heap') = Allocated(heap)
             /\ \A q \in Ptr : q # getEquipped(inv[d]) => heap'[q] = heap[q]
             /\ OthersUnchanged({d, s})
        /\ (ValidEmpty(inv[s]) /\ pc' = "running" /\ OperationOn(s)) => HeapUntouched
      ]_vars

\* C3: a live Inventory left empty by a move (in this specification no
\* Inventory is constructed from an empty grid) beside one that holds a grid
\* and the only Item ever allocated.
C3_Witness ==
    \E d \in InvIds, s \in InvIds :
        /\ d # s /\ Live(d) /\ ValidEmpty(inv[s])
        /\ getItems(inv[d]) # <<>>
        /\ getEquipped(inv[d]) # nullptr
        /\ heap[getEquipped(inv[d])].st = "live"
        /\ Cardinality(Allocated(heap)) = 1

----------------------------------------------------------------------------
(* C4 *)

\* C4: a copy construction or copy assignment that completes gives the
\* destination the source's grid, weight and count, no equipped item iff the
\* source has none, and otherwise a newly allocated Item equal in value to
\* the source's, which stays live; and an operation on one of two
\* Inventories with different equipped Items leaves the other and its
\* equipped Item as they were.
C4_CopyIsDeep ==
    [][\A d \in InvIds, s \in InvIds : d # s =>
        /\ (pc' = "running" /\ (CopyConstruct(d, s) \/ CopyAssign(d, s))) =>
             /\ inv'[d].live
             /\ getItems(inv'[d]) = getItems(inv[s])
             /\ getWeight(inv'[d]) = getWeight(inv[s])
             /\ getCount(inv'[d]) = getCount(inv[s])
             /\ inv'[s] = inv[s]
             /\ (getEquipped(inv'[d]) = nullptr) <=> (getEquipped(inv[s]) = nullptr)
             /\ getEquipped(inv[s]) # nullptr =>
                  /\ getEquipped(inv'[d]) \notin Allocated(heap)
                  /\ getEquipped(inv'[d]) # getEquipped(inv[s])
                  /\ heap'[getEquipped(inv'[d])].st = "live"
                  /\ heap'[getEquipped(inv'[d])].val = heap[getEquipped(inv[s])].val
                  /\ heap'[getEquipped(inv[s])].st = "live"
                  /\ heap'[getEquipped(inv[s])].val = heap[getEquipped(inv[s])].val
        /\ ( /\ Live(d) /\ Live(s) /\ getEquipped(inv[d]) # getEquipped(inv[s])
             /\ pc' = "running"
             /\ \/ DiscardEquipped(d)
                \/ Destroy(d)
                \/ \E a \in AnyPointers(heap, EquipVals) : Equip(d, a)
                \/ \E cell \in StoreCells, pickup \in StoreItems : Store(d, cell[1], cell[2], pickup) ) =>
             /\ inv'[s] = inv[s]
             /\ getEquipped(inv[s]) # nullptr => heap'[getEquipped(inv[s])] = heap[getEquipped(inv[s])]
      ]_vars

\* The copy half of C4 alone, for a caller that has only ever passed nullptr
\* or a fresh Item.
CopyIsDeepWhenDisciplined ==
    [][\A d \in InvIds, s \in InvIds :
        (d # s /\ disciplined /\ pc' = "running" /\ (CopyConstruct(d, s) \/ CopyAssign(d, s))) =>
             /\ inv'[d] = CopiedTo(inv[s], getEquipped(inv'[d]))
             /\ inv'[s] = inv[s]
             /\ (getEquipped(inv'[d]) = nullptr) <=> (getEquipped(inv[s]) = nullptr)
             /\ getEquipped(inv[s]) # nullptr =>
                  /\ getEquipped(inv'[d]) \notin Allocated(heap)
                  /\ heap'[getEquipped(inv'[d])] = [heap[getEquipped(inv[s])] EXCEPT !.frees = 0]
                  /\ heap'[getEquipped(inv[s])] = heap[getEquipped(inv[s])]
                  /\ heap[getEquipped(inv[s])].st = "live"
      ]_vars

----------------------------------------------------------------------------
(* C5 *)

\* C5: for every live Inventory and every (row, col), at and store raise
\* out_of_range exactly when row >= number of rows or col >= length of that
\* row; a store that raises leaves the Inventory and the free store as they
\* were.
C5_OutOfRangeIffOutside ==
    /\ [](\A o \in Objs : Live(o) =>
            \A row \in Coords, col \in Coords :
                LET outside == ~InBounds(getItems(inv[o]), row, col)
                IN  /\ at(inv[o], row, col).threw = outside
                    /\ \A pickup \in StoreItems :
                         /\ store(inv[o], row, col, pickup).threw = outside
                         /\ outside => store(inv[o], row, col, pickup).this = inv[o])
    /\ [][\A o \in InvIds, cell \in StoreCells, pickup \in StoreItems :
            (Store(o, cell[1], cell[2], pickup) /\ ~InBounds(getItems(inv[o]), cell[1], cell[2]))
                => UNCHANGED <<inv, heap>>
         ]_vars

\* C5: a default 10x10 Inventory that a store has acted on, (9,9) inside and
\* (10,10), (9,10) outside, beside a jagged Inventory where (0,1) is outside
\* and (1,1) inside.
C5_Witness ==
    \E a \in InvIds, b \in InvIds :
        /\ Live(a) /\ Live(b)
        /\ Len(getItems(inv[a])) = DefaultSize
        /\ getItems(inv[a])[1][1] = Potion
        /\ ~at(inv[a], 9, 9).threw
        /\ at(inv[a], 10, 10).threw
        /\ store(inv[a], 9, 10, Potion).threw
        /\ Len(getItems(inv[b])) = 2
        /\ at(inv[b], 0, 1).threw
        /\ ~at(inv[b], 1, 1).threw
        /\ at(inv[b], 2, 0).threw

\* C5: an Inventory emptied by a move raises at every position.
EmptiedRaises ==
    \A o \in Objs : (Live(o) /\ getItems(inv[o]) = <<>>) =>
        \A row \in Coords, col \in Coords : at(inv[o], row, col).threw

----------------------------------------------------------------------------
(* C6 *)

\* C6: for every in-bounds (row, col), store returns true exactly when the
\* cell's category is NONE; then the cell is the item, weight has grown by
\* the item's weight, count by 1, and every other cell and the equipped item
\* are as before; when it returns false nothing has changed.  The store
\* action leaves what store returns and touches nothing else.
C6_StoreResult ==
    /\ [](\A o \in Objs : Live(o) =>
            \A row \in Coords, col \in Coords, pickup \in StoreItems :
                InBounds(getItems(inv[o]), row, col) =>
                    LET r == store(inv[o], row, col, pickup)
                    IN  /\ ~r.threw
                        /\ r.ret <=> (getItems(inv[o])[row + 1][col + 1].type_ = NONE)
                        /\ r.ret =>
                             /\ getItems(r.this) = [getItems(inv[o]) EXCEPT ![row + 1][col + 1] = pickup]
                             /\ getWeight(r.this) = getWeight(inv[o]) + pickup.weight_
                             /\ getCount(r.this) = getCount(inv[o]) + 1
                             /\ getEquipped(r.this) = getEquipped(inv[o])
                             /\ r.this.live
                        /\ ~r.ret => r.this = inv[o])
    /\ [][\A o \in InvIds, cell \in StoreCells, pickup \in StoreItems :
            Store(o, cell[1], cell[2], pickup) =>
                /\ inv'[o] = store(inv[o], cell[1], cell[2], pickup).this
                /\ OthersUnchanged({o})
                /\ heap' = heap
         ]_vars

\* C6: a default Inventory after one store of the potion at (0,0): weight 5,
\* count 1, a further store there returns false and one at (0,1) true.
C6_Witness ==
    \E o \in InvIds :
        /\ Live(o)
        /\ Len(getItems(inv[o])) = DefaultSize
        /\ getItems(inv[o])[1][1] = Potion
        /\ getItems(inv[o])[1][2] = EmptyItem
        /\ getWeight(inv[o]) = Potion.weight_
        /\ getCount(inv[o]) = 1
        /\ ~store(inv[o], 0, 0, Potion).ret
        /\ store(inv[o], 0, 1, Potion).ret

----------------------------------------------------------------------------
(* C7 *)

\* C7: a discardEquipped that completes releases the equipped Item once and
\* clears the slot when an Item is equipped, and changes nothing when the
\* slot is empty (so a second call in succession releases nothing); grid,
\* weight and count are never changed.
C7_DiscardOnce ==
    [][\A o \in InvIds :
        (DiscardEquipped(o) /\ pc' = "running") =>
            /\ inv' = [inv EXCEPT ![o].equipped_ = nullptr]
            /\ IF getEquipped(inv[o]) # nullptr
               THEN /\ heap'[getEquipped(inv[o])].st = "freed"
                    /\ heap'[getEquipped(inv[o])].frees = heap[getEquipped(inv[o])].frees + 1
                    /\ \A q \in Ptr : q # getEquipped(inv[o]) => heap'[q] = heap[q]
               ELSE heap' = heap
      ]_vars

\* C7: an Inventory whose slot is empty and whose grid is not, the only Item
\* ever allocated having been released once.
C7_Witness ==
    \E o \in InvIds, p \in Ptr :
        /\ Live(o) /\ getEquipped(inv[o]) = nullptr /\ getItems(inv[o]) # <<>>
        /\ Allocated(heap) = {p}
        /\ heap[p].st = "freed" /\ heap[p].frees = 1
        /\ \A x \in Objs \ {o} : ~Live(x)
        /\ disciplined

----------------------------------------------------------------------------
(* C8 *)

\* C8: equip sets the slot to the new Item and does nothing else: no Item
\* that existed is released or changed (the previous one stays allocated),
\* and grid, weight and count are as before.
C8_EquipOnlyRebinds ==
    [][\A o \in InvIds, a \in AnyPointers(heap, EquipVals) :
        Equip(o, a) =>
            /\ inv' = [inv EXCEPT ![o].equipped_ = a.ptr]
            /\ getItems(inv'[o]) = getItems(inv[o])
            /\ getWeight(inv'[o]) = getWeight(inv[o])
            /\ getCount(inv'[o]) = getCount(inv[o])
            /\ HeapUntouched
            /\ pc' = pc
      ]_vars

\* C8: an Item that is live and equipped by nobody (equip replaced it), the
\* Inventory holding another live Item.
C8_Witness ==
    \E o \in InvIds, p \in Ptr :
        /\ Live(o) /\ getEquipped(inv[o]) # nullptr
        /\ heap[getEquipped(inv[o])].st = "live"
        /\ heap[p].st = "live" /\ Unreferenced(p)
        /\ disciplined

----------------------------------------------------------------------------
(* C9 *)

\* The Inventory fields of a and b agree.
SameInventory(a, b) ==
    /\ getItems(a) = getItems(b) /\ getWeight(a) = getWeight(b)
    /\ getCount(a) = getCount(b)

\* The move half of C9.
PlayerMoveTransfers ==
    [][\A k \in PlayerIds, s \in PlayerIds :
        (k # s /\ pc' = "running" /\ (PlayerMoveConstruct(k, s) \/ PlayerMoveAssign(k, s))) =>
            /\ getName(k)' = getName(s)
            /\ inv'[k].live /\ SameInventory(inv'[k], inv[s])
            /\ getEquipped(inv'[k]) = getEquipped(inv[s])
            /\ getName(s)' = ""
            /\ ValidEmpty(inv'[s])
      ]_vars

\* The copy half of C9.
PlayerCopyIsDeep ==
    [][\A k \in PlayerIds, s \in PlayerIds :
        (k # s /\ pc' = "running" /\ (PlayerCopyConstruct(k, s) \/ PlayerCopyAssign(k, s))) =>
            /\ getName(s)' = getName(s)
            /\ inv'[s] = inv[s]
            /\ getEquipped(inv[s]) # nullptr => heap'[getEquipped(inv[s])] = heap[getEquipped(inv[s])]
            /\ getName(k)' = getName(s)
            /\ inv'[k].live /\ SameInventory(inv'[k], inv[s])
            /\ (getEquipped(inv'[k]) = nullptr) <=> (getEquipped(inv[s]) = nullptr)
            /\ getEquipped(inv[s]) # nullptr =>
                 /\ getEquipped(inv'[k]) # getEquipped(inv[s])
                 /\ getEquipped(inv'[k]) \notin Allocated(heap)
                 /\ heap'[getEquipped(inv'[k])].st = "live"
                 /\ heap'[getEquipped(inv'[k])].val = heap[getEquipped(inv[s])].val
      ]_vars

\* C9: a Player move gives the destination the source's name and inventory
\* (same equipped Item) and leaves the source with an empty name and a
\* valid-empty inventory; a Player copy leaves the source (its equipped Item
\* included) unchanged and gives the destination an equal name and a deep
\* copy of the inventory with an equipped Item of its own.
C9_PlayerMoveAndCopy == PlayerMoveTransfers /\ PlayerCopyIsDeep

----------------------------------------------------------------------------
(* C10 *)

\* C10: as long as the caller has passed only nullptr or a fresh Item of its
\* own to constructors and equip: no Item has been released more than once,
\* no live Inventory's equipped Item has been released, the process has not
\* run into undefined behaviour; an assignment to itself changes nothing and
\* an assignment to another Inventory releases the destination's previous
\* Item, once.
C10_NoDoubleRelease ==
    /\ [](disciplined =>
            /\ pc = "running"
            /\ \A p \in Ptr : heap[p].frees <= 1
            /\ \A o \in Objs : (Live(o) /\ getEquipped(inv[o]) # nullptr)
                                  => heap[getEquipped(inv[o])].st = "live")
    /\ [][\A d \in InvIds, s \in InvIds :
            (disciplined /\ (CopyAssign(d, s) \/ MoveAssign(d, s))) =>
                IF d = s THEN UNCHANGED <<inv, heap, pc>>
                ELSE getEquipped(inv[d]) # nullptr =>
                        /\ heap[getEquipped(inv[d])].frees = 0
                        /\ heap'[getEquipped(inv[d])].frees = 1
                        /\ heap'[getEquipped(inv[d])].st = "freed"
         ]_vars

\* C10: two Inventories with a live Item each and a third Item released
\* once (the destination's previous one, after d = s), the caller having
\* been disciplined.
C10_Witness ==
    /\ disciplined
    /\ \A o \in InvIds : Live(o) /\ getEquipped(inv[o]) # nullptr
    /\ getEquipped(inv["inv1"]) # getEquipped(inv["inv2"])
    /\ \E p \in Ptr : heap[p].st = "freed" /\ heap[p].frees = 1 /\ Unreferenced(p)
    /\ Cardinality(Allocated(heap)) = 3

====
